---------------------------- MODULE Spec2Model ----------------------------
(***************************************************************************)
(* timeshap/plot/feature_level.py: plot_feat_barplot and plot_global_feat. *)
(*                                                                         *)
(* Both functions are transforms of an attribution table followed by one   *)
(* call into the chart renderer.  A call is modelled as one step from      *)
(* pc = "ready" (arguments bound) to pc = "done" (returned or raised).     *)
(*                                                                         *)
(* Numbers: Shapley values are exact rationals [num, den] (den > 0, in     *)
(* lowest terms), so a group mean, the -0.6 sentinel and the axis limits   *)
(* are exact; floating point rounding is not modelled.                     *)
(* Optional values (Python None / a null cell): <<>> is None, <<x>> is x.  *)
(* A dict is a function whose DOMAIN is its key set.                       *)
(* A DataFrame is a sequence of row records; a Series is a sequence of     *)
(* [index, value] entries.                                                 *)
(***************************************************************************)
EXTENDS Integers, Sequences, FiniteSets, TLC

VARIABLES
    fn,                 \* which function is called
    feat_data,          \* argument: the attribution table (one plot group)
    top_x_feats,        \* argument: Int (global), optional Int (barplot)
    threshold,          \* argument: optional rational
    plot_features,      \* the caller's display-name dict object (optional)
    plot_parameters,    \* argument: optional dict
    plot_features_arg,  \* the dict's content when the call was made
    pc,                 \* "ready" | "done"
    result,             \* "none" | "chart" | "KeyError" | "IndexError"
    chart,              \* optional: what was handed to the renderer
    locals              \* final values of the handler's local variables

vars == <<fn, feat_data, top_x_feats, threshold, plot_features,
          plot_parameters, plot_features_arg, pc, result, chart, locals>>

-----------------------------------------------------------------------------
(* Optionals and rationals *)

None == <<>>
Some(x) == <<x>>
IsNone(o) == Len(o) = 0
Get(o) == o[1]

Abs(n) == IF n < 0 THEN -n ELSE n

RECURSIVE GCD(_, _)
GCD(a, b) == IF b = 0 THEN a ELSE GCD(b, a % b)

\* n/d in lowest terms, d > 0
Rat(n, d) ==
    LET g == GCD(Abs(n), d)
    IN  [num |-> n \div g, den |-> d \div g]

RInt(n) == [num |-> n, den |-> 1]
RNeg(a) == [num |-> -a.num, den |-> a.den]
RAbs(a) == [num |-> Abs(a.num), den |-> a.den]
RLe(a, b) == a.num * b.den <= b.num * a.den
RGe(a, b) == RLe(b, a)

-----------------------------------------------------------------------------
(* Names and literals of the source *)

PrunedEvents == "Pruned Events"
Overflow == "(...)"
TypeRaw == "Shapley Value"
TypeMean == "Mean"

\* the lexicographic order pandas gives the group keys ('(' < 'P' < 'f')
KeyOrder == <<"(...)", "Pruned Events", "f1", "f2", "f3", "f4", "f5", "f6",
              "f7", "f8">>

OverflowValue == Rat(-3, 5)                      \* -0.6
DefaultHeight == 280
DefaultWidth == 288
DefaultAxisLims == <<Rat(-1, 5), Rat(3, 5)>>      \* [-0.2, 0.6]
DefaultFontSize == 13

BarLabelFontSize == 15
BarWidth == 190
BarHeight == 225
BarDomain == <<Rat(-1, 10), Rat(2, 5)>>           \* [-0.1, 0.4]
CutoffIndex == 4

-----------------------------------------------------------------------------
(* pandas helpers *)

Range(s) == {s[i] : i \in DOMAIN s}

RECURSIVE SumValues(_)
SumValues(s) ==
    IF s = <<>> THEN 0 ELSE Head(s).ShapleyValue + SumValues(Tail(s))

RowsOf(fd, f) == SelectSeq(fd, LAMBDA r : r.Feature = f)

\* feat_data.groupby('Feature').mean()['Shapley Value']
GroupbyMean(fd) ==
    LET keys == SelectSeq(KeyOrder,
                          LAMBDA k : \E i \in DOMAIN fd : fd[i].Feature = k)
    IN  [i \in DOMAIN keys |->
            [index |-> keys[i],
             value |-> Rat(SumValues(RowsOf(fd, keys[i])),
                           Len(RowsOf(fd, keys[i])))]]

\* Series.abs()
SeriesAbs(s) == [i \in DOMAIN s |-> [index |-> s[i].index,
                                    value |-> RAbs(s[i].value)]]

\* Series.sort_values(ascending=False): every order the (unstable) sort may
\* return, i.e. every descending arrangement of the entries
RECURSIVE Arrangements(_)
Arrangements(E) ==
    IF E = {} THEN {<<>>}
    ELSE UNION {{<<m>> \o t : t \in Arrangements(E \ {m})} :
                  m \in {e \in E : \A x \in E : RGe(e.value, x.value)}}

SortValuesDesc(s) == Arrangements(Range(s))

Index(s) == [i \in DOMAIN s |-> s[i].index]

\* truthiness of an optional number: `if threshold:`
TruthyNumber(o) == ~IsNone(o) /\ Get(o).num # 0

\* truthiness of an optional dict: `if plot_features:`
TruthyDict(o) == ~IsNone(o) /\ DOMAIN Get(o) # {}

\* d[k] = v on a dict
DictSet(d, k, v) == [x \in DOMAIN d \cup {k} |-> IF x = k THEN v ELSE d[x]]

\* dict.get(key, default)
DictGet(o, k, default) ==
    IF ~IsNone(o) /\ k \in DOMAIN Get(o) THEN Get(o)[k] ELSE default

-----------------------------------------------------------------------------
(* plot_global_feat: the inner function `plot`, one plot group *)

\* a slip in line 106: iloc[top_x_feats] instead of iloc[top_x_feats-1]
ComputeThreshold_OffByOne(avg_df, top, thr) ==
    IF IsNone(thr) /\ Len(avg_df) >= top
    THEN LET sorted_series ==
                 CHOOSE s \in SortValuesDesc(SeriesAbs(avg_df)) : TRUE
         IN  Some(sorted_series[IF top < Len(avg_df) THEN top + 1
                                ELSE top].value)
    ELSE thr

\* lines 104-106: the threshold in force after the top-x computation
ComputeThreshold(avg_df, top, thr) ==
    IF IsNone(thr) /\ Len(avg_df) >= top
    THEN LET sorted_series ==
                 CHOOSE s \in SortValuesDesc(SeriesAbs(avg_df)) : TRUE
         IN  Some(sorted_series[top].value)
    ELSE thr

\* line 108: the mask np.logical_or(avg_df <= -threshold, avg_df >= threshold)
PassesThreshold(m, t) == RLe(m, RNeg(t)) \/ RGe(m, t)

\* lines 107-108
FilterMeans(avg_df, thr) ==
    IF TruthyNumber(thr)
    THEN SelectSeq(avg_df, LAMBDA e : PassesThreshold(e.value, Get(thr)))
    ELSE avg_df

\* line 109: rows of the surviving features, columns Shapley Value, Feature
FilterRows(fd, avg_df) ==
    LET kept == SelectSeq(fd, LAMBDA r : r.Feature \in Range(Index(avg_df)))
    IN  [i \in DOMAIN kept |->
            [Feature |-> kept[i].Feature,
             ShapleyValue |-> Some(RInt(kept[i].ShapleyValue))]]

\* a slip in line 111: the marker appended unconditionally
AddsOverflow_Always(thr) == TRUE

\* line 111: is the overflow marker added
AddsOverflow(thr) == TruthyNumber(thr)

\* line 113
MeansWithOverflow(avg_df, thr) ==
    IF AddsOverflow(thr)
    THEN Append(avg_df, [index |-> Overflow, value |-> RInt(0)])
    ELSE avg_df

\* lines 114-117
RowsWithOverflow(rows, thr) ==
    IF AddsOverflow(thr)
    THEN Append(rows, [Feature |-> Overflow,
                       ShapleyValue |-> Some(OverflowValue)])
    ELSE rows

\* line 119
TagRaw(rows) == [i \in DOMAIN rows |->
                    [Feature |-> rows[i].Feature,
                     ShapleyValue |-> rows[i].ShapleyValue,
                     type |-> TypeRaw]]

\* a slip in lines 121-130: no Mean row written for the marker
MeanRows_SkipOverflow(avg_df) ==
    LET real == SelectSeq(avg_df, LAMBDA e : e.index # Overflow)
    IN  [i \in DOMAIN real |->
            [Feature |-> real[i].index,
             ShapleyValue |-> Some(real[i].value), type |-> TypeMean]]

\* lines 121-139: one Mean row per entry of avg_df, null for the marker
MeanRows(avg_df) ==
    [i \in DOMAIN avg_df |->
        IF avg_df[i].index = Overflow
        THEN [Feature |-> avg_df[i].index, ShapleyValue |-> None,
              type |-> TypeMean]
        ELSE [Feature |-> avg_df[i].index,
              ShapleyValue |-> Some(avg_df[i].value), type |-> TypeMean]]

\* a slip in lines 143-145: line 145 left out
AugmentedLabels_NoOverflow(pf) == DictSet(Get(pf), PrunedEvents, PrunedEvents)

\* lines 143-145: the call-local, augmented copy of the display map
AugmentedLabels(pf) ==
    DictSet(DictSet(Get(pf), PrunedEvents, PrunedEvents), Overflow, Overflow)

\* line 142
Relabels(pf) == TruthyDict(pf)

\* line 146: does a lookup plot_features[x] raise
LabelMissing(rows, labels) ==
    \E i \in DOMAIN rows : rows[i].Feature \notin DOMAIN labels

\* a slip in line 146: the relabelled column is not assigned back
RelabelRows_Skip(rows, labels) == rows

\* line 146
RelabelRows(rows, labels) ==
    [i \in DOMAIN rows |->
        [Feature |-> labels[rows[i].Feature],
         ShapleyValue |-> rows[i].ShapleyValue,
         type |-> rows[i].type]]

\* line 147
RelabelSort(sort_features, labels) ==
    [i \in DOMAIN sort_features |-> labels[sort_features[i]]]

\* lines 149-154
Height(pp) == DictGet(pp, "height", DefaultHeight)
Width(pp) == DictGet(pp, "width", DefaultWidth)
AxisLims(pp) == DictGet(pp, "axis_lim", DefaultAxisLims)
FontSize(pp) == DictGet(pp, "FontSize", DefaultFontSize)

\* lines 103-113: avg_df as it stands when the display order is taken
SelectedMeans(fd, top, thr) ==
    LET avg0 == GroupbyMean(fd)
        thr1 == ComputeThreshold(avg0, top, thr)
    IN  MeansWithOverflow(FilterMeans(avg0, thr1), thr1)

\* lines 102-177; sorted_means is the outcome of line 141's sort_values
plot(fd, top, thr, pf, pp, sorted_means) ==
    LET avg0 == GroupbyMean(fd)
        thr1 == ComputeThreshold(avg0, top, thr)
        avg1 == FilterMeans(avg0, thr1)
        avg2 == MeansWithOverflow(avg1, thr1)
        rows == TagRaw(RowsWithOverflow(FilterRows(fd, avg1), thr1))
        table == rows \o MeanRows(avg2)
        sort_features == Index(sorted_means)
        loc == [threshold |-> thr1, avg_df |-> avg2]
    IN  IF Relabels(pf) /\ LabelMissing(table, AugmentedLabels(pf))
        THEN [result |-> "KeyError", chart |-> None, locals |-> loc]
        ELSE [result |-> "chart",
              chart |-> Some(
                 [data |-> IF Relabels(pf)
                           THEN RelabelRows(table, AugmentedLabels(pf))
                           ELSE table,
                  sort |-> IF Relabels(pf)
                           THEN RelabelSort(sort_features, AugmentedLabels(pf))
                           ELSE sort_features,
                  height |-> Height(pp),
                  width |-> Width(pp),
                  domain |-> AxisLims(pp),
                  labelFontSize |-> FontSize(pp)]),
              locals |-> loc]

-----------------------------------------------------------------------------
(* plot_feat_barplot *)

\* line 40
BarRelabels(pf) == TruthyDict(pf)

\* line 41: plot_features['Pruned Events'] = 'Pruned Events', on the dict
\* object the caller passed
BarLabels(pf) == DictSet(Get(pf), PrunedEvents, PrunedEvents)

\* lines 40-41: the caller's dict object after the call
BarCallerDict(pf) == IF BarRelabels(pf) THEN Some(BarLabels(pf)) ELSE pf

\* line 44
BarRelabelRows(rows, labels) ==
    [i \in DOMAIN rows |->
        [Feature |-> labels[rows[i].Feature],
         ShapleyValue |-> rows[i].ShapleyValue,
         Explanation |-> rows[i].Explanation]]

\* line 46
AddSortCol(rows) ==
    [i \in DOMAIN rows |->
        [Feature |-> rows[i].Feature,
         ShapleyValue |-> rows[i].ShapleyValue,
         Explanation |-> rows[i].Explanation,
         sort_col |-> Abs(rows[i].ShapleyValue)]]

RECURSIVE InsertDesc(_, _)
InsertDesc(r, s) ==
    IF s = <<>> THEN <<r>>
    ELSE IF r.sort_col >= Head(s).sort_col THEN <<r>> \o s
    ELSE <<Head(s)>> \o InsertDesc(r, Tail(s))

\* line 49: feat_data.sort_values('sort_col', ascending=False)
RECURSIVE SortBySortCol(_)
SortBySortCol(rows) ==
    IF rows = <<>> THEN <<>>
    ELSE InsertDesc(Head(rows), SortBySortCol(Tail(rows)))

\* line 48
BarFilters(rows, top) == ~IsNone(top) /\ Len(rows) > Get(top)

\* line 50: sorted_df.iloc[4] raises when there are fewer than five rows
CutoffOutOfBounds(rows) == Len(rows) < CutoffIndex + 1

\* line 50
CutoffContribution(rows) ==
    Abs(SortBySortCol(rows)[CutoffIndex + 1].ShapleyValue)

\* line 51: feat_data['Explanation'] raises when the frame has no such column
HasExplanation(rows) == \A i \in DOMAIN rows : ~IsNone(rows[i].Explanation)

\* line 51: the mask is taken on the Explanation column
BarKeeps(r, cutoff) ==
    Get(r.Explanation) >= cutoff \/ Get(r.Explanation) <= -cutoff

\* line 51
BarFilter(rows, cutoff) == SelectSeq(rows, LAMBDA r : BarKeeps(r, cutoff))

\* lines 53-68
BarChart(rows) ==
    [data |-> rows,
     sort |-> <<"sort_col", "descending">>,
     height |-> BarHeight,
     width |-> BarWidth,
     domain |-> BarDomain,
     labelFontSize |-> BarLabelFontSize]

\* lines 39-69
plot_feat_barplot(fd, top, pf) ==
    LET dict == BarCallerDict(pf)
        fail(e) == [result |-> e, chart |-> None, plot_features |-> dict,
                    locals |-> [threshold |-> None, avg_df |-> <<>>]]
    IN  IF BarRelabels(pf)
           /\ \E i \in DOMAIN fd : fd[i].Feature \notin DOMAIN BarLabels(pf)
        THEN fail("KeyError")
        ELSE
        LET rows == AddSortCol(IF BarRelabels(pf)
                               THEN BarRelabelRows(fd, BarLabels(pf))
                               ELSE fd)
        IN  IF ~BarFilters(rows, top)
            THEN [result |-> "chart", chart |-> Some(BarChart(rows)),
                  plot_features |-> dict,
                  locals |-> [threshold |-> None, avg_df |-> <<>>]]
            ELSE IF CutoffOutOfBounds(rows) THEN fail("IndexError")
            ELSE IF ~HasExplanation(rows) THEN fail("KeyError")
            ELSE [result |-> "chart",
                  chart |-> Some(BarChart(
                               BarFilter(rows, CutoffContribution(rows)))),
                  plot_features |-> dict,
                  locals |-> [threshold |-> Some(RInt(CutoffContribution(rows))),
                              avg_df |-> <<>>]]

-----------------------------------------------------------------------------
(* The calls that are explored *)

MaxRows == 3        \* rows of a plot_global_feat table
MaxBarRows == 6     \* rows of a plot_feat_barplot table

Feats == {"Pruned Events", "f1", "f2"}
Values == {-1, 0, 1}
LabelValues == {-1, 2}
BarValues == {-2, 1}
TopChoices == {1, 2, 3}
DefaultTopGlobal == 12
DefaultTopBar == 15
BarTopChoices == {None, Some(2), Some(5), Some(DefaultTopBar)}
ThresholdChoices ==
    {None, Some(RInt(0)), Some(Rat(1, 2)), Some(RInt(1)), Some(Rat(-1, 2))}

GlobalRows(V) == [Feature : Feats, ShapleyValue : V]

\* display-name dicts a caller may pass
MapChoices ==
    { Some(<<>>),
      Some(("f1" :> "A") @@ ("f2" :> "B")),
      Some(("f1" :> "A") @@ ("f2" :> "A")),
      Some(("f1" :> "A")),
      Some(("f1" :> "(...)") @@ ("f2" :> "B")),
      Some(("f1" :> "A") @@ ("f2" :> "B") @@ ("Pruned Events" :> "PE")
             @@ ("(...)" :> "more")) }

\* plot_parameters dicts a caller may pass: every sub-dict of this one
AllParameters ==
    ("height" :> 300) @@ ("width" :> 400)
    @@ ("axis_lims" :> <<RInt(-1), RInt(1)>>)
    @@ ("axis_lim" :> <<RInt(-2), RInt(2)>>)
    @@ ("font_size" :> 20) @@ ("FontSize" :> 21) @@ ("color" :> 1)

ParamChoices ==
    {None} \cup {Some([k \in K |-> AllParameters[k]]) :
                    K \in SUBSET DOMAIN AllParameters}

ParamTables ==
    { <<>>,
      <<[Feature |-> "f1", ShapleyValue |-> 1],
        [Feature |-> "f2", ShapleyValue |-> -1]>> }

GlobalCall(fd, top, thr, pf, pp) ==
    [fn |-> "plot_global_feat", feat_data |-> fd, top_x_feats |-> Some(top),
     threshold |-> thr, plot_features |-> pf, plot_parameters |-> pp]

\* a local table has one row per feature; the Explanation column is absent,
\* a copy of the Shapley Value column, or a constant column
ExplanationChoices == {"absent", "copy", "low", "high"}

ExplanationCell(v, e) ==
    CASE e = "absent" -> None
      [] e = "copy" -> Some(v)
      [] e = "low" -> Some(-1)
      [] e = "high" -> Some(2)

BarTable(vals, e) ==
    [i \in DOMAIN vals |->
        [Feature |-> KeyOrder[i + 2], ShapleyValue |-> vals[i],
         Explanation |-> ExplanationCell(vals[i], e)]]

BarLabelTable ==
    <<[Feature |-> "f1", ShapleyValue |-> 2, Explanation |-> None],
      [Feature |-> "f2", ShapleyValue |-> -1, Explanation |-> None],
      [Feature |-> "Pruned Events", ShapleyValue |-> 1, Explanation |-> None]>>

BarCall(fd, top, pf) ==
    [fn |-> "plot_feat_barplot", feat_data |-> fd, top_x_feats |-> top,
     threshold |-> None, plot_features |-> pf, plot_parameters |-> None]

-----------------------------------------------------------------------------
(* The state machine *)

NoLocals == [threshold |-> None, avg_df |-> <<>>]

Bind(c) ==
    /\ fn = c.fn
    /\ feat_data = c.feat_data
    /\ top_x_feats = c.top_x_feats
    /\ threshold = c.threshold
    /\ plot_features = c.plot_features
    /\ plot_parameters = c.plot_parameters
    /\ plot_features_arg = c.plot_features
    /\ pc = "ready"
    /\ result = "none"
    /\ chart = None
    /\ locals = NoLocals

\* plot_global_feat: selection explored without a display map
InitSelect ==
    \E n \in 0..MaxRows : \E fd \in [1..n -> GlobalRows(Values)] :
    \E top \in TopChoices, thr \in ThresholdChoices :
        Bind(GlobalCall(fd, top, thr, None, None))

\* plot_global_feat: relabelling
InitLabel ==
    \E n \in 0..MaxRows : \E fd \in [1..n -> GlobalRows(LabelValues)] :
    \E top \in {2, 3}, thr \in {None, Some(RInt(1))}, pf \in MapChoices :
        Bind(GlobalCall(fd, top, thr, pf, None))

\* plot_global_feat: plot parameters, other arguments at their defaults
InitParams ==
    \E fd \in ParamTables, pp \in ParamChoices :
        Bind(GlobalCall(fd, DefaultTopGlobal, None, None, pp))

\* plot_feat_barplot: selection
InitBar ==
    \E n \in 0..MaxBarRows : \E vals \in [1..n -> BarValues] :
    \E e \in ExplanationChoices, top \in BarTopChoices :
        Bind(BarCall(BarTable(vals, e), top, None))

\* plot_feat_barplot: relabelling
InitBarLabel ==
    \E fd \in {BarLabelTable, SubSeq(BarLabelTable, 1, 2)},
       top \in {None, Some(DefaultTopBar)}, pf \in MapChoices :
        Bind(BarCall(fd, top, pf))

Init == InitSelect \/ InitLabel \/ InitParams \/ InitBar \/ InitBarLabel

\* lines 72-179.  multi_plot_wrapper (timeshap.plot.utils) is not part of
\* this file; the table is one plot group, for which the wrapper calls
\* `plot` once on the whole table and returns its chart.
PlotGlobalFeat ==
    /\ pc = "ready"
    /\ fn = "plot_global_feat"
    /\ \E sorted_means \in
            SortValuesDesc(SelectedMeans(feat_data, Get(top_x_feats),
                                         threshold)) :
          LET r == plot(feat_data, Get(top_x_feats), threshold,
                        plot_features, plot_parameters, sorted_means)
          IN  /\ result' = r.result
              /\ chart' = r.chart
              /\ locals' = r.locals
    /\ pc' = "done"
    /\ UNCHANGED <<fn, feat_data, top_x_feats, threshold, plot_features,
                   plot_parameters, plot_features_arg>>

\* lines 22-69
PlotFeatBarplot ==
    /\ pc = "ready"
    /\ fn = "plot_feat_barplot"
    /\ LET r == plot_feat_barplot(feat_data, top_x_feats, plot_features)
       IN  /\ result' = r.result
           /\ chart' = r.chart
           /\ locals' = r.locals
           /\ plot_features' = r.plot_features
    /\ pc' = "done"
    /\ UNCHANGED <<fn, feat_data, top_x_feats, threshold, plot_parameters,
                   plot_features_arg>>

Next == PlotGlobalFeat \/ PlotFeatBarplot

Spec == Init /\ [][Next]_vars

-----------------------------------------------------------------------------
(* Vocabulary of the properties *)

Done == pc = "done"
RLt(a, b) == a.num * b.den < b.num * a.den
GlobalDone == Done /\ fn = "plot_global_feat"
BarDone == Done /\ fn = "plot_feat_barplot"
Charted == result = "chart"
Table == Get(chart).data
SortOrder == Get(chart).sort

InputMeans == GroupbyMean(feat_data)
InputFeatures == Range(Index(InputMeans))
NumFeatures == Len(InputMeans)
MeanOf(f) == (CHOOSE e \in Range(InputMeans) : e.index = f).value

\* features (synthetic marker included) that survived selection
Selected == Range(Index(locals.avg_df))
Survivors == Selected \ {Overflow}

\* the k-th largest of the absolute per-feature means
KthLargestAbsMean(k) ==
    CHOOSE v \in {RAbs(MeanOf(f)) : f \in InputFeatures} :
        /\ Cardinality({f \in InputFeatures : RLt(v, RAbs(MeanOf(f)))}) < k
        /\ Cardinality({f \in InputFeatures : RGe(RAbs(MeanOf(f)), v)}) >= k

\* the label a feature is shown under
LabelOf(f) ==
    IF TruthyDict(plot_features)
    THEN DictSet(DictSet(Get(plot_features), PrunedEvents, PrunedEvents),
                 Overflow, Overflow)[f]
    ELSE f

RawRowsOf(tbl) == SelectSeq(tbl, LAMBDA r : r.type = TypeRaw)
MeanRowsOf(tbl) == SelectSeq(tbl, LAMBDA r : r.type = TypeMean)
CountRows(tbl, ty, label) ==
    Cardinality({i \in DOMAIN tbl : tbl[i].type = ty /\ tbl[i].Feature = label})

\* the input records of the features in F, as raw rows of the output table
ExpectedRaw(F) ==
    LET kept == SelectSeq(feat_data, LAMBDA r : r.Feature \in F)
    IN  [i \in DOMAIN kept |->
            [Feature |-> LabelOf(kept[i].Feature),
             ShapleyValue |-> Some(RInt(kept[i].ShapleyValue)),
             type |-> TypeRaw]]

SyntheticRaw ==
    [Feature |-> Overflow, ShapleyValue |-> Some(Rat(-3, 5)), type |-> TypeRaw]
SyntheticMean ==
    [Feature |-> Overflow, ShapleyValue |-> None, type |-> TypeMean]

-----------------------------------------------------------------------------
(* C1: with no threshold supplied and at least top_x_feats distinct        *)
(* features, the threshold used is the top_x_feats-th largest absolute     *)
(* mean, the surviving features are exactly those whose mean m has         *)
(* m <= -threshold or m >= threshold, and the raw rows handed to the       *)
(* renderer are exactly the input records of the surviving features.       *)
C1_TopXSelection ==
    (GlobalDone /\ IsNone(threshold) /\ NumFeatures >= Get(top_x_feats)) =>
        LET t == KthLargestAbsMean(Get(top_x_feats))
            keep == {f \in InputFeatures :
                        RLe(MeanOf(f), RNeg(t)) \/ RGe(MeanOf(f), t)}
        IN  /\ locals.threshold = Some(t)
            /\ Survivors = keep
            /\ Charted =>
                 SelectSeq(RawRowsOf(Table),
                           LAMBDA r : r # SyntheticRaw) = ExpectedRaw(keep)

\* a computed threshold drops one feature and keeps another, and the kept
\* rows reach the chart
C1_Witness ==
    /\ GlobalDone /\ IsNone(threshold) /\ NumFeatures >= Get(top_x_feats)
    /\ Charted
    /\ Survivors # {}
    /\ InputFeatures \ Survivors # {}
    /\ \E f \in Survivors : MeanOf(f).den > 1
    /\ Len(RawRowsOf(Table)) >= 3

(* C2 as stated: whenever a threshold is in effect (supplied, or computed  *)
(* because there are at least top_x_feats distinct features) the table has *)
(* exactly one raw row for '(...)' with value -0.6 and exactly one Mean    *)
(* row for '(...)' with a null value.                                      *)
C2_OverflowRowsWhenThreshold ==
    (GlobalDone /\ Charted
       /\ (~IsNone(threshold) \/ NumFeatures >= Get(top_x_feats))) =>
        /\ CountRows(Table, TypeRaw, Overflow) = 1
        /\ CountRows(Table, TypeMean, Overflow) = 1
        /\ \A i \in DOMAIN Table :
              Table[i].Feature = Overflow =>
                 Table[i].ShapleyValue =
                    IF Table[i].type = TypeRaw THEN Some(Rat(-3, 5)) ELSE None

(* C3: with fewer distinct features than top_x_feats and no threshold      *)
(* supplied, every feature and every raw record is retained and nothing    *)
(* for the overflow marker is added to the table or to the sort order.     *)
C3_NoTruncation ==
    (GlobalDone /\ IsNone(threshold) /\ NumFeatures < Get(top_x_feats)) =>
        /\ Selected = InputFeatures
        /\ Charted =>
             /\ RawRowsOf(Table) = ExpectedRaw(InputFeatures)
             /\ Len(MeanRowsOf(Table)) = NumFeatures
             /\ Len(SortOrder) = NumFeatures
             /\ \A i \in DOMAIN Table : Table[i] \notin {SyntheticRaw,
                                                         SyntheticMean}
             /\ ~TruthyDict(plot_features) =>
                  /\ \A i \in DOMAIN Table : Table[i].Feature # Overflow
                  /\ \A i \in DOMAIN SortOrder : SortOrder[i] # Overflow

\* two features, several records, top_x_feats above the feature count
C3_Witness ==
    /\ GlobalDone /\ IsNone(threshold) /\ NumFeatures < Get(top_x_feats)
    /\ Charted
    /\ NumFeatures = 2
    /\ Len(feat_data) = 3
    /\ Len(Table) = 5


\* every type is known, and every label with a raw row has one Mean row
MeanRowPairing ==
    /\ \A i \in DOMAIN Table : Table[i].type \in {TypeRaw, TypeMean}
    /\ \A i \in DOMAIN Table :
          Table[i].type = TypeRaw =>
             CountRows(Table, TypeMean, Table[i].Feature) = 1

\* distinct selected features are shown under distinct labels
DistinctLabels ==
    \A f, g \in Selected : LabelOf(f) = LabelOf(g) => f = g

(* C4 as stated: in the table handed to the renderer, after relabelling     *)
(* through any display map, every label with at least one 'Shapley Value'  *)
(* row has exactly one 'Mean' row, the overflow marker included, and every *)
(* row's type is 'Shapley Value' or 'Mean'.                                *)
C4_MeanRowPairingAnyMap == (GlobalDone /\ Charted) => MeanRowPairing

(* C4, amended: the same, for calls whose display map (if any) gives        *)
(* distinct labels to the distinct features of the table, marker included. *)
C4_MeanRowPairing ==
    (GlobalDone /\ Charted /\ DistinctLabels) => MeanRowPairing

\* a relabelled table with two real features and the overflow marker
C4_Witness ==
    /\ GlobalDone /\ Charted /\ DistinctLabels
    /\ TruthyDict(plot_features)
    /\ Cardinality(Survivors) = 2
    /\ Overflow \in Selected
    /\ CountRows(Table, TypeRaw, Overflow) = 1
    /\ \E f \in Survivors : LabelOf(f) # f

\* position of a label in the display order list
PositionOf(f) == CHOOSE i \in DOMAIN SortOrder : SortOrder[i] = f

(* C5 as stated: the display order lists the surviving real features in    *)
(* descending order of mean, and the overflow marker, when present, is the *)
(* last element, whatever the signs of the means.  (Stated on calls that   *)
(* do not relabel, where list entries are the features themselves.)        *)
C5_OrderOverflowLast ==
    (GlobalDone /\ Charted /\ ~TruthyDict(plot_features)) =>
        /\ Range(SortOrder) = Selected
        /\ Len(SortOrder) = Cardinality(Selected)
        /\ \A f, g \in Survivors :
              PositionOf(f) < PositionOf(g) => RGe(MeanOf(f), MeanOf(g))
        /\ Overflow \in Selected => SortOrder[Len(SortOrder)] = Overflow

\* the 5th-largest absolute Shapley value of the input table
FifthLargestAbs ==
    LET a(i) == Abs(feat_data[i].ShapleyValue)
    IN  CHOOSE v \in {a(i) : i \in DOMAIN feat_data} :
           /\ Cardinality({i \in DOMAIN feat_data : a(i) > v}) < 5
           /\ Cardinality({i \in DOMAIN feat_data : a(i) >= v}) >= 5

BarInput(rows) ==
    [i \in DOMAIN rows |-> [Feature |-> rows[i].Feature,
                           ShapleyValue |-> rows[i].ShapleyValue]]

(* C6 as stated: when the number of records exceeds top_x_feats the call   *)
(* succeeds and the chart's records are exactly the input records whose    *)
(* Shapley value v has v >= cutoff or v <= -cutoff, cutoff being the       *)
(* 5th-largest absolute Shapley value; when top_x_feats is None or is not  *)
(* exceeded, all records reach the chart.  (Calls without a display map.)  *)
C6_BarplotTopX ==
    (BarDone /\ IsNone(plot_features)) =>
        /\ Charted
        /\ IF ~IsNone(top_x_feats) /\ Len(feat_data) > Get(top_x_feats)
           THEN /\ Len(feat_data) >= 5
                /\ BarInput(Table) =
                     BarInput(SelectSeq(feat_data,
                        LAMBDA r : r.ShapleyValue >= FifthLargestAbs
                                   \/ r.ShapleyValue <= -FifthLargestAbs))
           ELSE BarInput(Table) = BarInput(feat_data)

(* C7 as stated: after any call with a caller-supplied display map, the    *)
(* caller's map has the same keys and values as before the call.           *)
C7_CallerMapUntouched == Done => plot_features = plot_features_arg

\* the real features that need a label of the caller's
NeedLabel == Survivors \ {PrunedEvents}

\* what C8 says of a call that was given a display map
RelabelledOrRaised ==
    IF NeedLabel \subseteq DOMAIN Get(plot_features)
    THEN /\ Charted
         /\ RawRowsOf(Table) =
              ExpectedRaw(Survivors)
              \o (IF Overflow \in Selected THEN <<SyntheticRaw>> ELSE <<>>)
         /\ Range(SortOrder) = {LabelOf(f) : f \in Selected}
    ELSE result = "KeyError" /\ IsNone(chart)

C8_WitnessRaise ==
    /\ GlobalDone /\ TruthyDict(plot_features)
    /\ "f2" \in Survivors /\ "f2" \notin DOMAIN Get(plot_features)
    /\ result = "KeyError"

Option(k, default) ==
    IF ~IsNone(plot_parameters) /\ k \in DOMAIN Get(plot_parameters)
    THEN Get(plot_parameters)[k] ELSE default

(* C10 as stated: height, width, axis_lims and font_size of                *)
(* plot_parameters, when present, set the panel height, panel width,       *)
(* value-axis domain and label font size; absent, these are 280, 288,      *)
(* [-0.2, 0.6] and 13; no other key has an effect.                         *)
C10_PlotParameters ==
    (GlobalDone /\ Charted) =>
        /\ Get(chart).height = Option("height", 280)
        /\ Get(chart).width = Option("width", 288)
        /\ Get(chart).domain = Option("axis_lims", <<Rat(-1, 5), Rat(3, 5)>>)
        /\ Get(chart).labelFontSize = Option("font_size", 13)

=============================================================================
